---------------------------- MODULE Spec2Model ----------------------------
(***************************************************************************)
(* Model of app.py (JSON -> Excel exposure report): the label normalizers, *)
(* the duration codec, process_data, build_individual_df,                  *)
(* build_aggregate_df, the period sort and the upload loops of main.       *)
(*                                                                         *)
(* Python strings are modelled as sequences of one-character strings, so   *)
(* that formatting, parsing, case folding and the regular expressions are  *)
(* computed character by character as the code computes them.              *)
(* Python dicts are modelled as sequences of <<key, value>> pairs in       *)
(* insertion order.                                                        *)
(***************************************************************************)
EXTENDS Integers, Sequences, FiniteSets, TLC

VARIABLES
    pc,               \* position of the running script / function
    \* ---- duration codec (ms_to_hhmmss / parse_ms)
    total_ms,         \* argument of ms_to_hhmmss
    hms,              \* ms_to_hhmmss(total_ms)
    parsed_ms,        \* parse_ms(hms)
    hms2,             \* ms_to_hhmmss(parsed_ms)
    \* ---- configuration (module globals of app.py)
    period_map,       \* config['Periods']: canonical name -> aliases
    placement_map,    \* config['Placements']: canonical name -> aliases
    \* ---- normalize_period
    raw_period,       \* the argument p
    np1,              \* normalize_period(p)
    np2,              \* normalize_period(normalize_period(p))
    \* ---- main: the period options
    all_periods,      \* set of every normalized period of the uploads
    sorted_periods,   \* sorted(all_periods, key=sort_period_key)
    \* ---- process_data / build_individual_df
    data,             \* the parsed JSON document
    logos,            \* dict (FileName, GroupId) -> normalized placement
    stats,            \* dict (FileName, GroupId) -> accumulator
    periods,          \* set of normalized periods seen on counted shots
    shot_i,           \* number of shots the loop of line 74 has consumed
    sponsor_stats,    \* dict (sponsor, placement) -> accumulator
    logo_j,           \* number of logos the loop of line 85 has consumed
    df,               \* build_individual_df(sponsor_stats, periods list)
    \* ---- main: the Generate run
    uploads,          \* the uploaded files
    aggregate,        \* the 'Create aggregated xlsx' checkbox
    upload_u,         \* number of uploads the current loop has consumed
    selected_periods, \* the periods selected in the multiselect
    individual_dfs,   \* list of (game id, per-game table)
    \* ---- build_aggregate_df
    placement_acc,    \* dict placement -> lists of per-game values
    game_k,           \* number of tables the loop of line 123 has consumed
    agg_df            \* rows of the aggregate table

codecVars == <<total_ms, hms, parsed_ms, hms2>>
configVars == <<period_map, placement_map>>
normVars == <<raw_period, np1, np2>>
sortVars == <<all_periods, sorted_periods>>
procVars == <<data, logos, stats, periods, shot_i, sponsor_stats, logo_j, df>>
mainVars == <<uploads, aggregate, upload_u, selected_periods, individual_dfs>>
aggVars == <<placement_acc, game_k, agg_df>>
vars == <<pc, codecVars, configVars, normVars, sortVars, procVars, mainVars, aggVars>>

\* What each function leaves alone
exceptCodec == <<configVars, normVars, sortVars, procVars, mainVars, aggVars>>
exceptNorm == <<codecVars, sortVars, procVars, mainVars, aggVars>>
exceptSort == <<codecVars, configVars, normVars, procVars, mainVars, aggVars>>
exceptProc == <<codecVars, normVars, sortVars, mainVars, aggVars>>
exceptMain == <<codecVars, configVars, normVars, procVars>>

-----------------------------------------------------------------------------
(* Bounds of the model *)

MaxHours == 100
MaxRawLen == 3
MaxPeriods == 3
MaxShots == 3
MaxGames == 3
MaxUploads == 3

-----------------------------------------------------------------------------
(* Characters and Python's str / int primitives *)

DigitCh == <<"0", "1", "2", "3", "4", "5", "6", "7", "8", "9">>
UpperCh == <<"A", "B", "C", "D", "E", "F", "G", "H", "I", "J", "K", "L", "M",
             "N", "O", "P", "Q", "R", "S", "T", "U", "V", "W", "X", "Y", "Z">>
LowerCh == <<"a", "b", "c", "d", "e", "f", "g", "h", "i", "j", "k", "l", "m",
             "n", "o", "p", "q", "r", "s", "t", "u", "v", "w", "x", "y", "z">>

Range(s) == {s[i] : i \in DOMAIN s}
IsDigit(c) == c \in Range(DigitCh)
IsUpper(c) == c \in Range(UpperCh)
IsLower(c) == c \in Range(LowerCh)
IsAlpha(c) == IsUpper(c) \/ IsLower(c)
IndexIn(c, s) == CHOOSE i \in DOMAIN s : s[i] = c

\* Code-point order of the characters the model uses
AsciiCh == <<" ", "(", ")", ".", "/">> \o DigitCh \o <<":">> \o UpperCh
           \o <<"_">> \o LowerCh
Ord(c) == IndexIn(c, AsciiCh)

\* str.lower(), str.upper(), str.strip(), str.replace(' ', '')
LowerOf(c) == IF IsUpper(c) THEN LowerCh[IndexIn(c, UpperCh)] ELSE c
UpperOf(c) == IF IsLower(c) THEN UpperCh[IndexIn(c, LowerCh)] ELSE c
Lower(s) == [i \in DOMAIN s |-> LowerOf(s[i])]
Upper(s) == [i \in DOMAIN s |-> UpperOf(s[i])]

RECURSIVE Strip(_)
Strip(s) ==
    IF Len(s) = 0 THEN s
    ELSE IF s[1] = " " THEN Strip(Tail(s))
    ELSE IF s[Len(s)] = " " THEN Strip(SubSeq(s, 1, Len(s) - 1))
    ELSE s

RECURSIVE RemoveSpaces(_)
RemoveSpaces(s) ==
    IF Len(s) = 0 THEN s
    ELSE IF s[1] = " " THEN RemoveSpaces(Tail(s))
    ELSE <<s[1]>> \o RemoveSpaces(Tail(s))

\* str.title(): a letter is upper-cased after a non-letter, lower-cased after a letter
Title(s) ==
    [i \in DOMAIN s |->
        IF ~IsAlpha(s[i]) THEN s[i]
        ELSE IF i > 1 /\ IsAlpha(s[i - 1]) THEN LowerOf(s[i]) ELSE UpperOf(s[i])]

\* s < t for Python strings (code-point lexicographic order)
RECURSIVE StrLess(_, _)
StrLess(s, t) ==
    IF Len(t) = 0 THEN FALSE
    ELSE IF Len(s) = 0 THEN TRUE
    ELSE IF s[1] # t[1] THEN Ord(s[1]) < Ord(t[1])
    ELSE StrLess(Tail(s), Tail(t))

\* int(c) for one decimal digit
DigitVal(c) == IndexIn(c, DigitCh) - 1

\* str(n) for n >= 0
RECURSIVE Dec(_)
Dec(n) == IF n < 10 THEN <<DigitCh[n + 1]>>
          ELSE Dec(n \div 10) \o <<DigitCh[(n % 10) + 1]>>

\* f"{n:02d}" for n >= 0: at least two digits, never truncated
Pad2(n) == IF n < 10 THEN <<"0">> \o Dec(n) ELSE Dec(n)

\* Whether int(s) succeeds: a non-empty string of decimal digits
IsDecimal(s) == Len(s) > 0 /\ \A i \in DOMAIN s : IsDigit(s[i])

\* Marks a raised exception where a number was expected
Raised == 0 - 1

\* int(s) for a string of decimal digits; Raised (ValueError) otherwise
RECURSIVE IntOf(_)
IntOf(s) ==
    IF ~IsDecimal(s) THEN Raised
    ELSE IF Len(s) = 1 THEN DigitVal(s[1])
    ELSE IntOf(SubSeq(s, 1, Len(s) - 1)) * 10 + DigitVal(s[Len(s)])

\* s.split(sep) for a one-character separator
RECURSIVE Split(_, _)
Split(s, sep) ==
    IF \A i \in DOMAIN s : s[i] # sep THEN <<s>>
    ELSE LET k == CHOOSE i \in DOMAIN s :
                     s[i] = sep /\ \A j \in 1..(i - 1) : s[j] # sep
         IN <<SubSeq(s, 1, k - 1)>> \o Split(SubSeq(s, k + 1, Len(s)), sep)

\* math.ceil(a / b) for a >= 0, b > 0
CeilDiv(a, b) == (a + b - 1) \div b

-----------------------------------------------------------------------------
(* ms_to_hhmmss and parse_ms *)

\* The tail of ms_to_hhmmss once total_s is known
FormatSeconds(total_s) ==
    IF total_s = 0 THEN <<>>
    ELSE LET h   == total_s \div 3600
             rem == total_s % 3600
             m   == rem \div 60
             s   == rem % 60
         IN Pad2(h) \o <<":">> \o Pad2(m) \o <<":">> \o Pad2(s)

\* A plausible slip: hours wrapped at a day, as a clock would show them
ms_to_hhmmss_wrapped(ms) ==
    LET total_s == CeilDiv(ms, 1000)
    IN IF total_s = 0 THEN <<>>
       ELSE Pad2((total_s \div 3600) % 24) \o <<":">>
            \o Pad2((total_s % 3600) \div 60) \o <<":">> \o Pad2(total_s % 60)

ms_to_hhmmss(ms) == FormatSeconds(CeilDiv(ms, 1000))

\* ms_to_hhmmss(total / n): the argument is the quotient of two integers
ms_to_hhmmss_ratio(total, n) == FormatSeconds(CeilDiv(total, n * 1000))

\* parse_ms: "" (or a non-string) is 0; otherwise exactly three integers
parse_ms(x) ==
    IF x = <<>> THEN 0
    ELSE LET parts == Split(x, ":")
         IN IF Len(parts) # 3 \/ \E i \in 1..3 : ~IsDecimal(parts[i])
            THEN Raised
            ELSE (IntOf(parts[1]) * 3600 + IntOf(parts[2]) * 60
                  + IntOf(parts[3])) * 1000

-----------------------------------------------------------------------------
(* Specification of the duration codec *)

MsInputs ==
    {((h * 3600 + m * 60 + s) * 1000) + r :
        h \in 0..MaxHours, m \in {0, 1, 59}, s \in {0, 1, 59}, r \in {0, 500}}

CodecIdle == total_ms = 0 /\ hms = <<>> /\ parsed_ms = 0 /\ hms2 = <<>>

ConfigIdle == period_map = <<>> /\ placement_map = <<>>
NormIdle == raw_period = <<>> /\ np1 = <<>> /\ np2 = <<>>
SortIdle == all_periods = {} /\ sorted_periods = <<>>
EmptyDf == [columns |-> <<>>, rows |-> <<>>]
ProcIdle ==
    /\ data = <<>> /\ logos = <<>> /\ stats = <<>> /\ periods = {} /\ shot_i = 0
    /\ sponsor_stats = <<>> /\ logo_j = 0 /\ df = EmptyDf
AggIdle ==
    /\ uploads = <<>> /\ aggregate = FALSE /\ upload_u = 0
    /\ selected_periods = <<>> /\ individual_dfs = <<>>
    /\ placement_acc = <<>> /\ game_k = 0 /\ agg_df = <<>>

InitCodec ==
    /\ pc = "format"
    /\ total_ms \in MsInputs
    /\ hms = <<>> /\ parsed_ms = 0 /\ hms2 = <<>>
    /\ ConfigIdle /\ NormIdle /\ SortIdle /\ ProcIdle /\ AggIdle

Format ==
    /\ pc = "format"
    /\ hms' = ms_to_hhmmss(total_ms)
    /\ pc' = "parse"
    /\ UNCHANGED <<total_ms, parsed_ms, hms2>> /\ UNCHANGED exceptCodec

Parse ==
    /\ pc = "parse"
    /\ parsed_ms' = parse_ms(hms)
    /\ pc' = "reformat"
    /\ UNCHANGED <<total_ms, hms, hms2>> /\ UNCHANGED exceptCodec

Reformat ==
    /\ pc = "reformat"
    /\ parsed_ms # Raised
    /\ hms2' = ms_to_hhmmss(parsed_ms)
    /\ pc' = "codec_done"
    /\ UNCHANGED <<total_ms, hms, parsed_ms>> /\ UNCHANGED exceptCodec

NextCodec == Format \/ Parse \/ Reformat

SpecCodec == InitCodec /\ [][NextCodec]_vars

\* C8: for every non-negative multiple of 1000 ms, parsing the formatted string
\* gives the milliseconds back and reformatting gives the same string; 0 formats
\* to the empty string and the empty string parses to 0.
DurationRoundTrip ==
    (pc = "codec_done" /\ total_ms % 1000 = 0) =>
        /\ parsed_ms = total_ms
        /\ hms2 = hms
        /\ (total_ms = 0 => hms = <<>>)
        /\ (hms = <<>> => parsed_ms = 0)

\* A hundred hours went through the codec: three hour digits, split and read back
DurationRoundTripWitness ==
    /\ pc = "codec_done"
    /\ total_ms = 360000000
    /\ hms = <<"1", "0", "0", ":", "0", "0", ":", "0", "0">>
    /\ parsed_ms = 360000000

-----------------------------------------------------------------------------
(* normalize_with_map, normalize_period, normalize_placement *)

\* v0.lower() == canon.lower() or any(v0.lower() == a.lower() for a in aliases)
EntryMatches(v0, entry) ==
    \/ Lower(v0) = Lower(entry[1])
    \/ \E k \in DOMAIN entry[2] : Lower(v0) = Lower(entry[2][k])

\* The loop over mapping.items(), from entry i on
RECURSIVE MapScan(_, _, _, _)
MapScan(value, v0, mapping, i) ==
    IF i > Len(mapping) THEN value
    ELSE IF EntryMatches(v0, mapping[i]) THEN mapping[i][1]
    ELSE MapScan(value, v0, mapping, i + 1)

normalize_with_map(value, mapping) == MapScan(value, Strip(value), mapping, 1)

\* re.match(r"^(\d+)(suffix)$", s): the digits when s is digits then suffix
DigitsBefore(s, suffix) ==
    LET n == Len(s) - Len(suffix)
    IN IF n >= 1 /\ SubSeq(s, n + 1, Len(s)) = suffix /\ IsDecimal(SubSeq(s, 1, n))
       THEN SubSeq(s, 1, n) ELSE <<>>

\* re.match(r"^(\d+)(a|b|...)$", s): group 1, or <<>> when there is no match
RECURSIVE MatchNumberWord(_, _)
MatchNumberWord(s, words) ==
    IF Len(words) = 0 THEN <<>>
    ELSE IF DigitsBefore(s, words[1]) # <<>> THEN DigitsBefore(s, words[1])
    ELSE MatchNumberWord(s, Tail(words))

\* re.sub(r"(\d+)([A-Za-z]+)", r"\1 \2", s): every match is a maximal digit run
\* followed by letters, so a space goes in wherever a digit meets a letter
RECURSIVE SpaceDigitsLetters(_)
SpaceDigitsLetters(s) ==
    IF Len(s) <= 1 THEN s
    ELSE IF IsDigit(s[1]) /\ IsAlpha(s[2])
         THEN <<s[1], " ">> \o SpaceDigitsLetters(Tail(s))
    ELSE <<s[1]>> \o SpaceDigitsLetters(Tail(s))

TopWords == << <<"t">>, <<"t", "o", "p">> >>
BottomWords == << <<"b">>, <<"b", "o", "t">>, <<"b", "o", "t", "t", "o", "m">> >>

\* The part of normalize_period after the configuration lookup (lines 42-48)
PatternFallback(p) ==
    LET p0 == Lower(RemoveSpaces(p))
    IN IF MatchNumberWord(p0, TopWords) # <<>>
       THEN MatchNumberWord(p0, TopWords) \o <<" ", "T", "o", "p">>
       ELSE IF MatchNumberWord(p0, BottomWords) # <<>>
       THEN MatchNumberWord(p0, BottomWords)
            \o <<" ", "B", "o", "t", "t", "o", "m">>
       ELSE Title(SpaceDigitsLetters(RemoveSpaces(p)))

\* normalize_period under a given configuration
NormalizePeriodWith(p, mapping) ==
    LET np_ == normalize_with_map(p, mapping)
    IN IF np_ # p THEN np_ ELSE PatternFallback(p)

normalize_period(p) == NormalizePeriodWith(p, period_map)

normalize_placement(pl) == normalize_with_map(pl, placement_map)

-----------------------------------------------------------------------------
(* Specification of normalize_period *)

S_OT == <<"O", "T">>
S_Q1 == <<"Q", "1">>
S_1Q == <<"1", "Q">>
S_1T == <<"1", "T">>
S_1Top == <<"1", " ", "T", "o", "p">>
S_2Bottom == <<"2", " ", "B", "o", "t", "t", "o", "m">>
S_Overtime == <<"O", "v", "e", "r", "t", "i", "m", "e">>
S_FirstHalf == <<"F", "i", "r", "s", "t", " ", "H", "a", "l", "f">>
S_1H == <<"1", "H">>

\* config['Periods'] as loaded: no file ({}), or a file naming quarters and halves
PeriodConfigs ==
    { <<>>,
      << <<S_OT, <<S_Overtime>>>>, <<S_Q1, <<S_1Q>>>> >>,
      << <<S_FirstHalf, <<S_1H, S_1T>>>> >> }

RawAlphabet == {"1", "2", "t", "b", "O", "T", "o", " "}

RECURSIVE StringsUpTo(_, _)
StringsUpTo(alphabet, n) ==
    IF n = 0 THEN {<<>>}
    ELSE LET shorter == StringsUpTo(alphabet, n - 1)
         IN shorter \cup {Append(s, c) : s \in shorter, c \in alphabet}

RawPeriods ==
    StringsUpTo(RawAlphabet, MaxRawLen)
    \cup {S_OT, S_Q1, S_1Q, S_1T, S_1Top, S_2Bottom, S_Overtime, S_FirstHalf,
          S_1H, <<"1", "2", "b", "o", "t">>, <<" ", "q", "1", " ">>,
          <<"1", "s", "t", " ", "h", "a", "l", "f">>}

InitNorm ==
    /\ pc = "normalize"
    /\ period_map \in PeriodConfigs
    /\ placement_map = <<>>
    /\ raw_period \in RawPeriods
    /\ np1 = <<>> /\ np2 = <<>>
    /\ CodecIdle /\ SortIdle /\ ProcIdle /\ AggIdle

Normalize ==
    /\ pc = "normalize"
    /\ np1' = normalize_period(raw_period)
    /\ pc' = "renormalize"
    /\ UNCHANGED <<raw_period, np2, configVars>> /\ UNCHANGED exceptNorm

Renormalize ==
    /\ pc = "renormalize"
    /\ np2' = normalize_period(np1)
    /\ pc' = "norm_done"
    /\ UNCHANGED <<raw_period, np1, configVars>> /\ UNCHANGED exceptNorm

NextNorm == Normalize \/ Renormalize

SpecNorm == InitNorm /\ [][NextNorm]_vars

\* The configured entries the trimmed raw string equals, ignoring case
MatchingEntries(value, mapping) ==
    {i \in DOMAIN mapping : EntryMatches(Strip(value), mapping[i])}

\* C9: a raw period that, trimmed, equals a configured canonical name or alias
\* case-insensitively normalizes to the first such canonical name exactly as
\* configured, also when the raw string already is that canonical name.
ConfigMatchReturnsCanon ==
    (pc # "normalize" /\ MatchingEntries(raw_period, period_map) # {}) =>
        LET first == CHOOSE i \in MatchingEntries(raw_period, period_map) :
                         \A j \in MatchingEntries(raw_period, period_map) : i <= j
        IN np1 = period_map[first][1]

\* C6: normalize_period(normalize_period(x)) = normalize_period(x) under every
\* alias configuration.
NormalizePeriodIdempotent ==
    pc = "norm_done" => np2 = np1

-----------------------------------------------------------------------------
(* sort_period_key and sorted(all_periods, key=sort_period_key) *)

\* The items of a key tuple: Python compares an int with an int and a str with
\* a str, and raises TypeError for an int against a str
IntItem(n) == [type |-> "int", int |-> n, str |-> <<>>]
StrItem(s) == [type |-> "str", int |-> 0, str |-> s]

\* The length of the run of characters satisfying Test at the start of s
RECURSIVE DigitRun(_)
DigitRun(s) ==
    IF Len(s) = 0 \/ ~IsDigit(s[1]) THEN 0 ELSE 1 + DigitRun(Tail(s))

RECURSIVE SpaceRun(_)
SpaceRun(s) ==
    IF Len(s) = 0 \/ s[1] # " " THEN 0 ELSE 1 + SpaceRun(Tail(s))

S_TOP == <<"T", "O", "P">>
S_BOTTOM == <<"B", "O", "T", "T", "O", "M">>

\* re.match(r"^(\d+)\s+(TOP|BOTTOM)$", up): <<group 1, group 2>>, or <<>>
MatchNumberSide(up) ==
    LET d    == DigitRun(up)
        rest == SubSeq(up, d + 1, Len(up))
        w    == SpaceRun(rest)
        side == SubSeq(rest, w + 1, Len(rest))
    IN IF d >= 1 /\ w >= 1 /\ side \in {S_TOP, S_BOTTOM}
       THEN <<SubSeq(up, 1, d), side>> ELSE <<>>

\* A plausible slip: the number of "<number> Top" kept as text, not int(...)
sort_period_key_textual(p) ==
    LET up == Upper(Strip(p))
    IN IF Len(up) = 2 /\ up[1] = "Q" /\ up[2] \in {"1", "2", "3", "4"}
       THEN <<IntItem(0), IntItem(DigitVal(up[2]))>>
       ELSE IF up = <<"O", "T">> THEN <<IntItem(0), IntItem(5)>>
       ELSE IF MatchNumberSide(up) # <<>>
       THEN <<IntItem(1), StrItem(MatchNumberSide(up)[1]),
              IntItem(IF MatchNumberSide(up)[2] = S_TOP THEN 0 ELSE 1)>>
       ELSE <<IntItem(2), StrItem(p)>>

sort_period_key(p) ==
    LET up == Upper(Strip(p))
    IN IF Len(up) = 2 /\ up[1] = "Q" /\ up[2] \in {"1", "2", "3", "4"}
       THEN <<IntItem(0), IntItem(DigitVal(up[2]))>>
       ELSE IF up = <<"O", "T">> THEN <<IntItem(0), IntItem(5)>>
       ELSE IF MatchNumberSide(up) # <<>>
       THEN <<IntItem(1), IntItem(IntOf(MatchNumberSide(up)[1])),
              IntItem(IF MatchNumberSide(up)[2] = S_TOP THEN 0 ELSE 1)>>
       ELSE <<IntItem(2), StrItem(p)>>

\* a < b for two items: "lt", "gt", "eq" or "TypeError"
ItemCmp(a, b) ==
    IF a.type # b.type THEN "TypeError"
    ELSE IF a.type = "int"
         THEN (IF a.int < b.int THEN "lt" ELSE IF a.int > b.int THEN "gt" ELSE "eq")
    ELSE (IF StrLess(a.str, b.str) THEN "lt"
          ELSE IF StrLess(b.str, a.str) THEN "gt" ELSE "eq")

\* Python's tuple comparison: the first differing item decides, a prefix is less
RECURSIVE KeyCmp(_, _)
KeyCmp(a, b) ==
    IF Len(a) = 0 /\ Len(b) = 0 THEN "eq"
    ELSE IF Len(a) = 0 THEN "lt"
    ELSE IF Len(b) = 0 THEN "gt"
    ELSE IF a[1] = b[1] THEN KeyCmp(Tail(a), Tail(b))
    ELSE ItemCmp(a[1], b[1])

\* The orders sorted(S, key=sort_period_key) can return: the set is iterated in
\* an arbitrary order and the sort is stable, so equal keys may come either way
Orderings(S) ==
    {f \in [1..Cardinality(S) -> S] : \A i, j \in DOMAIN f : i # j => f[i] # f[j]}

SortedOrderings(S) ==
    {f \in Orderings(S) :
        \A i, j \in DOMAIN f :
            i < j => KeyCmp(sort_period_key(f[i]), sort_period_key(f[j])) # "gt"}

SortRaises(S) ==
    \E a, b \in S : KeyCmp(sort_period_key(a), sort_period_key(b)) = "TypeError"

-----------------------------------------------------------------------------
(* Specification of the period sort (main, line 199) *)

S_Q2 == <<"Q", "2">>
S_Q3 == <<"Q", "3">>
S_Q4 == <<"Q", "4">>
S_Q5 == <<"Q", "5">>
S_Ot == <<"O", "t">>
S_1Bottom == <<"1", " ", "B", "o", "t", "t", "o", "m">>
S_2Top == <<"2", " ", "T", "o", "p">>
S_10Top == <<"1", "0", " ", "T", "o", "p">>
S_10Bottom == <<"1", "0", " ", "B", "o", "t", "t", "o", "m">>
S_Final == <<"F", "i", "n", "a", "l">>
S_Half == <<"H", "a", "l", "f">>
S_extra == <<"e", "x", "t", "r", "a">>

\* Labels normalize_period returns: configured canonical names ("OT", "extra"),
\* pattern results ("1 Top") and title-cased free text ("Ot", "Final")
PeriodLabels ==
    {S_Q1, S_Q2, S_Q3, S_Q4, S_OT, S_Ot, S_1Top, S_1Bottom, S_2Top, S_2Bottom,
     S_10Top, S_10Bottom, S_Final, S_Half, S_Q5, S_extra}

InitSort ==
    /\ pc = "collected"
    /\ all_periods \in {S \in SUBSET PeriodLabels : Cardinality(S) <= MaxPeriods}
    /\ sorted_periods = <<>>
    /\ CodecIdle /\ ConfigIdle /\ NormIdle /\ ProcIdle /\ AggIdle

SortPeriods ==
    /\ pc = "collected"
    /\ IF SortRaises(all_periods)
       THEN pc' = "sort_raised" /\ UNCHANGED sorted_periods
       ELSE pc' = "sorted" /\ sorted_periods' \in SortedOrderings(all_periods)
    /\ UNCHANGED all_periods /\ UNCHANGED exceptSort

\* The options are shown and the user picks again: the script reruns
Rerun ==
    /\ pc = "sorted"
    /\ pc' = "collected"
    /\ sorted_periods' = <<>>
    /\ UNCHANGED all_periods /\ UNCHANGED exceptSort

NextSort == SortPeriods \/ Rerun

SpecSort == InitSort /\ [][NextSort]_vars

\* The order the specification describes, written out for the labels of the
\* model: quarters, overtime, numbered Top/Bottom by number, then free text
ExpectedOrder ==
    << {S_Q1}, {S_Q2}, {S_Q3}, {S_Q4}, {S_OT, S_Ot}, {S_1Top}, {S_1Bottom},
       {S_2Top}, {S_2Bottom}, {S_10Top}, {S_10Bottom},
       {S_Final}, {S_Half}, {S_Q5}, {S_extra} >>

ExpectedRank(label) == CHOOSE i \in DOMAIN ExpectedOrder : label \in ExpectedOrder[i]

\* C10: sorting by sort_period_key never fails to compare two keys and puts
\* Q1..Q4 first, then OT, then "<number> Top/Bottom" by number (numerically) with
\* Top before Bottom, then the free-text labels in lexicographic order.
PeriodsSortedByFamily ==
    /\ pc # "sort_raised"
    /\ pc = "sorted" =>
        /\ Len(sorted_periods) = Cardinality(all_periods)
        /\ Range(sorted_periods) = all_periods
        /\ \A i, j \in DOMAIN sorted_periods :
               i < j => ExpectedRank(sorted_periods[i]) <= ExpectedRank(sorted_periods[j])

\* A sort that had to order a quarter, a one-digit and a two-digit number
PeriodsSortedWitness ==
    /\ pc = "sorted"
    /\ sorted_periods = <<S_Q1, S_2Top, S_10Top>>

-----------------------------------------------------------------------------
(* Python dicts and JSON objects *)

\* A JSON object is a function from its keys; obj[k] raises KeyError without k
Has(obj, k) == k \in DOMAIN obj
GetOr(obj, k, default) == IF Has(obj, k) THEN obj[k] ELSE default

\* A dict is the sequence of its <<key, value>> items in insertion order
DictKeys(d) == {d[i][1] : i \in DOMAIN d}
DictIndex(d, k) == CHOOSE i \in DOMAIN d : d[i][1] = k
DictGet(d, k, default) == IF k \in DictKeys(d) THEN d[DictIndex(d, k)][2] ELSE default
DictPut(d, k, v) ==
    IF k \in DictKeys(d) THEN [d EXCEPT ![DictIndex(d, k)] = <<k, v>>]
    ELSE Append(d, <<k, v>>)

\* sum of a dict's values
RECURSIVE SumValues(_)
SumValues(d) == IF Len(d) = 0 THEN 0 ELSE d[1][2] + SumValues(Tail(d))

-----------------------------------------------------------------------------
(* normalize_sponsor *)

\* s.rfind(c), 1-based; 0 when c does not occur
LastIndex(s, c) ==
    IF \A i \in DOMAIN s : s[i] # c THEN 0
    ELSE CHOOSE i \in DOMAIN s : s[i] = c /\ \A j \in (i + 1)..Len(s) : s[j] # c

\* os.path.splitext(name)[0]: cut at the last dot, unless that dot is before the
\* last separator or only dots precede it in the file name
SplitExtRoot(name) ==
    LET sep == LastIndex(name, "/")
        dot == LastIndex(name, ".")
    IN IF dot > sep /\ \E k \in (sep + 1)..(dot - 1) : name[k] # "."
       THEN SubSeq(name, 1, dot - 1) ELSE name

\* re.sub(r"\(\d+\)$", "", base)
StripNumberSuffix(base) ==
    LET n    == Len(base)
        open == LastIndex(base, "(")
    IN IF n >= 3 /\ base[n] = ")" /\ open >= 1 /\ open <= n - 2
          /\ IsDecimal(SubSeq(base, open + 1, n - 1))
       THEN SubSeq(base, 1, open - 1) ELSE base

\* A plausible slip: the extension is removed but the "(n)" suffix is kept
normalize_sponsor_keep_suffix(name) == SplitExtRoot(name)

normalize_sponsor(name) == StripNumberSuffix(SplitExtRoot(name))

-----------------------------------------------------------------------------
(* process_data *)

ZeroStat == [count |-> 0, dur_ms |-> 0, screen_sum |-> 0, periods |-> <<>>]

LogoKey(l) == <<l.FileName, l.GroupId>>

\* The dict comprehension of lines 69-72 raises KeyError on a logo without
\* FileName or GroupId
LogosRaise(d) ==
    \E i \in DOMAIN GetOr(d, "Logos", <<>>) :
        ~Has(GetOr(d, "Logos", <<>>)[i], "FileName")
        \/ ~Has(GetOr(d, "Logos", <<>>)[i], "GroupId")

RECURSIVE LogosFrom(_, _)
LogosFrom(list, acc) ==
    IF Len(list) = 0 THEN acc
    ELSE LogosFrom(Tail(list),
                   DictPut(acc, LogoKey(list[1]),
                           normalize_placement(GetOr(list[1], "Placement", <<>>))))

LogosDict(d) == LogosFrom(GetOr(d, "Logos", <<>>), <<>>)

\* One iteration of the loop of line 74 raises KeyError at line 75 or line 77
ShotRaises(lg, shot) ==
    \/ ~Has(shot, "FileName")
    \/ ~Has(shot, "GroupId")
    \/ (LogoKey(shot) \in DictKeys(lg) /\ ~Has(shot, "Period"))

\* Lines 77-83 for a shot whose key is in logos; acc is [stats, periods]
CountShot(acc, shot) ==
    LET key    == LogoKey(shot)
        period == normalize_period(shot.Period)
        ent    == DictGet(acc.stats, key, ZeroStat)
        dur    == GetOr(shot, "Duration", 0)
    IN [stats |->
            DictPut(acc.stats, key,
                [count      |-> ent.count + 1,
                 dur_ms     |-> ent.dur_ms + dur,
                 screen_sum |-> ent.screen_sum + GetOr(shot, "ScreenPercentage", 0),
                 periods    |-> DictPut(ent.periods, period,
                                        DictGet(ent.periods, period, 0) + dur)]),
        periods |-> acc.periods \cup {period}]

\* A plausible slip: the period is normalized and recorded before the orphan test
ShotStep_period_first(lg, acc, shot) ==
    IF LogoKey(shot) \notin DictKeys(lg)
    THEN [acc EXCEPT !.periods =
              @ \cup (IF Has(shot, "Period") THEN {normalize_period(shot.Period)}
                      ELSE {})]
    ELSE CountShot(acc, shot)

\* A plausible slip: the per-period duration is assigned, not accumulated
ShotStep_overwrite(lg, acc, shot) ==
    IF LogoKey(shot) \notin DictKeys(lg) THEN acc
    ELSE LET new == CountShot(acc, shot)
             key == LogoKey(shot)
             ent == DictGet(new.stats, key, ZeroStat)
         IN [new EXCEPT !.stats =
                DictPut(new.stats, key,
                    [ent EXCEPT !.periods =
                        DictPut(ent.periods, normalize_period(shot.Period),
                                GetOr(shot, "Duration", 0))])]

\* One iteration of the loop of line 74 that does not raise
ShotStep(lg, acc, shot) ==
    IF LogoKey(shot) \notin DictKeys(lg) THEN acc ELSE CountShot(acc, shot)

\* for per, ms in s.get('periods', {}).items(): agg['periods'][per] += ms
RECURSIVE MergePeriods(_, _)
MergePeriods(into, from) ==
    IF Len(from) = 0 THEN into
    ELSE MergePeriods(DictPut(into, from[1][1],
                              DictGet(into, from[1][1], 0) + from[1][2]),
                      Tail(from))

SponsorKey(item) == <<normalize_sponsor(item[1][1]), item[2]>>

\* One iteration of the loop of line 85; item is <<(fn, gid), placement>>
MergeLogo(ss, st, item) ==
    LET s   == DictGet(st, item[1], ZeroStat)
        key == SponsorKey(item)
        agg == DictGet(ss, key, ZeroStat)
    IN DictPut(ss, key,
           [count      |-> agg.count + s.count,
            dur_ms     |-> agg.dur_ms + s.dur_ms,
            screen_sum |-> agg.screen_sum + s.screen_sum,
            periods    |-> MergePeriods(agg.periods, s.periods)])

-----------------------------------------------------------------------------
(* build_individual_df *)

\* round(n / d) to the nearest integer, an exact tie to the even neighbour
RoundHalfEven(n, d) ==
    LET q == n \div d
        r == n % d
    IN IF 2 * r < d THEN q
       ELSE IF 2 * r > d THEN q + 1
       ELSE IF q % 2 = 0 THEN q ELSE q + 1

\* f"{x:.2f}%" for x given in hundredths
PercentText(hundredths) ==
    Dec(hundredths \div 100) \o <<".">>
    \o <<DigitCh[((hundredths % 100) \div 10) + 1], DigitCh[(hundredths % 10) + 1]>>
    \o <<"%">>

\* f"{(num / den):.2f}%"
FormatPercent(num, den) == PercentText(RoundHalfEven(100 * num, den))

Row(item, periodList) ==
    LET agg == item[2]
    IN [Sponsor       |-> item[1][1],
        Placement     |-> item[1][2],
        TotalShots    |-> agg.count,
        TotalDuration |-> ms_to_hhmmss(agg.dur_ms),
        AvgScreen     |-> FormatPercent(agg.screen_sum, agg.count),
        cells         |-> [k \in DOMAIN periodList |->
                              ms_to_hhmmss(DictGet(agg.periods, periodList[k], 0))]]

RECURSIVE Rows(_, _)
Rows(ss, periodList) ==
    IF Len(ss) = 0 THEN <<>>
    ELSE IF ss[1][2].count = 0 THEN Rows(Tail(ss), periodList)
    ELSE <<Row(ss[1], periodList)>> \o Rows(Tail(ss), periodList)

build_individual_df(ss, periodList) ==
    [columns |-> periodList, rows |-> Rows(ss, periodList)]

\* process_data as a function of the document: the folds of its two loops
RECURSIVE ShotsFrom(_, _, _)
ShotsFrom(lg, acc, shots) ==
    IF Len(shots) = 0 THEN acc
    ELSE ShotsFrom(lg, ShotStep(lg, acc, shots[1]), Tail(shots))

RECURSIVE MergeFrom(_, _, _)
MergeFrom(ss, st, items) ==
    IF Len(items) = 0 THEN ss
    ELSE MergeFrom(MergeLogo(ss, st, items[1]), st, Tail(items))

ProcessRaises(d) ==
    \/ LogosRaise(d)
    \/ \E i \in DOMAIN GetOr(d, "Shots", <<>>) :
           ShotRaises(LogosDict(d), GetOr(d, "Shots", <<>>)[i])

\* process_data(data) when it returns: [sponsor_stats, periods]
process_data(d) ==
    LET lg  == LogosDict(d)
        acc == ShotsFrom(lg, [stats |-> <<>>, periods |-> {}],
                         GetOr(d, "Shots", <<>>))
    IN [sponsor_stats |-> MergeFrom(<<>>, acc.stats, lg), periods |-> acc.periods]

-----------------------------------------------------------------------------
(* Specification of process_data followed by build_individual_df *)

S_NikePng == <<"N", "i", "k", "e", ".", "p", "n", "g">>
S_Nike2Png == <<"N", "i", "k", "e", "(", "2", ")", ".", "p", "n", "g">>
S_NikeJpg == <<"N", "i", "k", "e", ".", "j", "p", "g">>
S_AdidasJpg == <<"A", "d", "i", "d", "a", "s", ".", "j", "p", "g">>
S_PumaPng == <<"P", "u", "m", "a", ".", "p", "n", "g">>
S_Nike == <<"N", "i", "k", "e">>
S_Adidas == <<"A", "d", "i", "d", "a", "s">>
S_Puma == <<"P", "u", "m", "a">>
S_LeftBoard == <<"L", "e", "f", "t", "B", "o", "a", "r", "d">>
S_leftboard == <<"l", "e", "f", "t", "b", "o", "a", "r", "d">>
S_LB == <<"L", "B">>
S_Center == <<"C", "e", "n", "t", "e", "r">>
S_1t == <<"1", "t">>
S_1top == <<"1", " ", "t", "o", "p">>
S_2b == <<"2", "b">>
S_q3 == <<"q", "3">>
S_overtime == <<"o", "v", "e", "r", "t", "i", "m", "e">>

\* config.yaml as loaded: absent, or naming one period and one placement
Configs ==
    { [Periods |-> <<>>, Placements |-> <<>>],
      [Periods    |-> << <<S_OT, <<S_Overtime>>>> >>,
       Placements |-> << <<S_LeftBoard, <<S_LB>>>> >>] }

Logo(fn, gid, pl) == [FileName |-> fn, GroupId |-> gid, Placement |-> pl]
Shot(fn, gid, per, dur, pct) ==
    [FileName |-> fn, GroupId |-> gid, Period |-> per, Duration |-> dur,
     ScreenPercentage |-> pct]

LogoCases ==
    { <<>>,
      <<Logo(S_NikePng, 1, S_LeftBoard)>>,
      <<Logo(S_NikePng, 1, S_LeftBoard), Logo(S_Nike2Png, 1, S_leftboard),
        Logo(S_AdidasJpg, 1, S_Center)>>,
      <<Logo(S_NikePng, 1, S_LeftBoard), Logo(S_Nike2Png, 1, S_LB),
        Logo(S_NikeJpg, 2, S_LeftBoard), Logo(S_NikePng, 2, S_Center)>>,
      <<Logo(S_NikePng, 1, S_LeftBoard), Logo(S_AdidasJpg, 1, S_Center),
        Logo(S_NikePng, 1, S_Center)>>,
      <<[FileName |-> S_NikePng, GroupId |-> 1], Logo(S_AdidasJpg, 1, S_Center)>>,
      <<Logo(S_NikePng, 1, S_LeftBoard), [FileName |-> S_AdidasJpg]>> }

ShotPool ==
    { Shot(S_NikePng, 1, S_1t, 2000, 10),
      Shot(S_Nike2Png, 1, S_1top, 1500, 25),
      Shot(S_NikePng, 1, S_2b, 500, 30),
      [FileName |-> S_AdidasJpg, GroupId |-> 1, Period |-> S_overtime],
      Shot(S_PumaPng, 1, S_q3, 1000, 50),
      [FileName |-> S_NikePng, GroupId |-> 1, Duration |-> 700] }

RECURSIVE ListsUpTo(_, _)
ListsUpTo(pool, n) ==
    IF n = 0 THEN {<<>>}
    ELSE LET shorter == ListsUpTo(pool, n - 1)
         IN shorter \cup {Append(l, x) : l \in shorter, x \in pool}

S_G1 == <<"G", "1">>

Documents ==
    {[GameInfo |-> [GameId |-> S_G1], Logos |-> l, Shots |-> s] :
        l \in LogoCases, s \in ListsUpTo(ShotPool, MaxShots)}

InitProc ==
    /\ pc = "logos"
    /\ \E c \in Configs : period_map = c.Periods /\ placement_map = c.Placements
    /\ data \in Documents
    /\ logos = <<>> /\ stats = <<>> /\ periods = {} /\ shot_i = 0
    /\ sponsor_stats = <<>> /\ logo_j = 0 /\ df = EmptyDf
    /\ CodecIdle /\ NormIdle /\ SortIdle /\ AggIdle

\* Where process_data stands once i shots and j logos are consumed
LoopPc(d, lg, i, j) ==
    IF i < Len(GetOr(d, "Shots", <<>>)) THEN "shots"
    ELSE IF j < Len(lg) THEN "merge" ELSE "build"

\* Lines 69-73
BuildLogos ==
    /\ pc = "logos"
    /\ IF LogosRaise(data)
       THEN pc' = "raised" /\ UNCHANGED logos
       ELSE /\ logos' = LogosDict(data)
            /\ pc' = LoopPc(data, LogosDict(data), 0, 0)
    /\ UNCHANGED <<data, stats, periods, shot_i, sponsor_stats, logo_j, df>>
    /\ UNCHANGED configVars /\ UNCHANGED exceptProc

NextShot == data.Shots[shot_i + 1]

\* Lines 75-76: the shot's key is not in logos, continue
OrphanShot ==
    /\ pc = "shots"
    /\ ~ShotRaises(logos, NextShot)
    /\ LogoKey(NextShot) \notin DictKeys(logos)
    /\ stats' = ShotStep(logos, [stats |-> stats, periods |-> periods], NextShot).stats
    /\ periods' = ShotStep(logos, [stats |-> stats, periods |-> periods], NextShot).periods
    /\ shot_i' = shot_i + 1
    /\ pc' = LoopPc(data, logos, shot_i + 1, 0)
    /\ UNCHANGED <<data, logos, sponsor_stats, logo_j, df>>
    /\ UNCHANGED configVars /\ UNCHANGED exceptProc

\* Lines 75-83: the shot is counted
CountedShot ==
    /\ pc = "shots"
    /\ ~ShotRaises(logos, NextShot)
    /\ LogoKey(NextShot) \in DictKeys(logos)
    /\ stats' = ShotStep(logos, [stats |-> stats, periods |-> periods], NextShot).stats
    /\ periods' = ShotStep(logos, [stats |-> stats, periods |-> periods], NextShot).periods
    /\ shot_i' = shot_i + 1
    /\ pc' = LoopPc(data, logos, shot_i + 1, 0)
    /\ UNCHANGED <<data, logos, sponsor_stats, logo_j, df>>
    /\ UNCHANGED configVars /\ UNCHANGED exceptProc

\* Lines 75 and 77: shot['FileName'], shot['GroupId'] or shot['Period'] is missing
ShotKeyError ==
    /\ pc = "shots"
    /\ ShotRaises(logos, NextShot)
    /\ pc' = "raised"
    /\ UNCHANGED procVars /\ UNCHANGED configVars /\ UNCHANGED exceptProc

\* Lines 85-94: one logo merged into its (sponsor, placement) entry
MergeLogoStep ==
    /\ pc = "merge"
    /\ sponsor_stats' = MergeLogo(sponsor_stats, stats, logos[logo_j + 1])
    /\ logo_j' = logo_j + 1
    /\ pc' = LoopPc(data, logos, shot_i, logo_j + 1)
    /\ UNCHANGED <<data, logos, stats, periods, shot_i, df>>
    /\ UNCHANGED configVars /\ UNCHANGED exceptProc

\* Line 95, then build_individual_df on the periods in their display order
BuildTable ==
    /\ pc = "build"
    /\ \E periodList \in SortedOrderings(periods) :
           df' = build_individual_df(sponsor_stats, periodList)
    /\ pc' = "proc_done"
    /\ UNCHANGED <<data, logos, stats, periods, shot_i, sponsor_stats, logo_j>>
    /\ UNCHANGED configVars /\ UNCHANGED exceptProc

NextProc ==
    BuildLogos \/ OrphanShot \/ CountedShot \/ ShotKeyError \/ MergeLogoStep
    \/ BuildTable

SpecProc == InitProc /\ [][NextProc]_vars

\* The document without its i-th shot
WithoutShot(d, i) ==
    [d EXCEPT !.Shots = SubSeq(d.Shots, 1, i - 1) \o SubSeq(d.Shots, i + 1, Len(d.Shots))]

\* The shots of the document whose (FileName, GroupId) is no logo's key
OrphanShots(d) ==
    {i \in DOMAIN d.Shots :
        /\ Has(d.Shots[i], "FileName") /\ Has(d.Shots[i], "GroupId")
        /\ \A k \in DOMAIN d.Logos :
               <<d.Shots[i].FileName, d.Shots[i].GroupId>>
                   # <<d.Logos[k].FileName, d.Logos[k].GroupId>>}

\* C1: once process_data has returned, its outputs (the sponsor statistics and
\* the set of periods) are those of the same document with any one orphan shot
\* removed: the orphan adds no period, count, duration or screen percentage.
OrphanInvariant ==
    pc \in {"build", "proc_done"} =>
        \A i \in OrphanShots(data) :
            /\ ~ProcessRaises(WithoutShot(data, i))
            /\ process_data(WithoutShot(data, i)).sponsor_stats = sponsor_stats
            /\ process_data(WithoutShot(data, i)).periods = periods

\* process_data returned on a document holding an orphan shot (Puma, period q3)
\* next to a counted one
OrphanInvariantWitness ==
    /\ pc = "proc_done"
    /\ \E i \in OrphanShots(data) :
           Has(data.Shots[i], "Period") /\ data.Shots[i].Period = S_q3
    /\ periods # {}
    /\ \E k \in DOMAIN sponsor_stats : sponsor_stats[k][2].count > 0

\* The shots among the first n whose key is key
ShotsOfKey(key, n) ==
    {i \in 1..n : <<data.Shots[i].FileName, data.Shots[i].GroupId>> = key}

\* The shots whose logo has been merged into the sponsor entry skey
ShotsOfSponsor(skey) ==
    {i \in DOMAIN data.Shots :
        \E j \in 1..logo_j :
            /\ logos[j][1] = <<data.Shots[i].FileName, data.Shots[i].GroupId>>
            /\ <<normalize_sponsor(logos[j][1][1]), logos[j][2]>> = skey}

ExpectedSponsor(fn) ==
    CASE fn = S_NikePng -> S_Nike
      [] fn = S_Nike2Png -> S_Nike
      [] fn = S_NikeJpg -> S_Nike
      [] fn = S_AdidasJpg -> S_Adidas
      [] fn = S_PumaPng -> S_Puma

\* The (sponsor, placement) pairs of the document's logos; a later logo with the
\* same (FileName, GroupId) replaces the earlier one's placement
LogoPairs ==
    {<<ExpectedSponsor(data.Logos[k].FileName), logos[m][2]>> :
        <<k, m>> \in {km \in (DOMAIN data.Logos) \X (DOMAIN logos) :
            logos[km[2]][1] = <<data.Logos[km[1]].FileName, data.Logos[km[1]].GroupId>>}}

\* The shots whose logo belongs to the pair
ShotsOfPair(pair) ==
    {i \in DOMAIN data.Shots :
        \E m \in DOMAIN logos :
            /\ logos[m][1] = <<data.Shots[i].FileName, data.Shots[i].GroupId>>
            /\ <<ExpectedSponsor(logos[m][1][1]), logos[m][2]>> = pair}

\* C5: the per-game table has exactly one row per (sponsor, placement) pair with
\* a merged shot count above 0 and none for a pair with count 0; every pair of
\* Logos has a sponsor entry; file names that differ by extension or "(n)" suffix
\* and share a placement share one row.
OneRowPerCountedPair ==
    pc = "proc_done" =>
        /\ DictKeys(sponsor_stats) = LogoPairs
        /\ {<<df.rows[r].Sponsor, df.rows[r].Placement>> : r \in DOMAIN df.rows}
               = {pair \in LogoPairs : ShotsOfPair(pair) # {}}
        /\ \A r, q \in DOMAIN df.rows :
               (df.rows[r].Sponsor = df.rows[q].Sponsor
                   /\ df.rows[r].Placement = df.rows[q].Placement) => r = q
        /\ \A r \in DOMAIN df.rows :
               df.rows[r].TotalShots
                   = Cardinality(ShotsOfPair(<<df.rows[r].Sponsor, df.rows[r].Placement>>))

\* Nike.png and Nike(2).png share the placement LeftBoard and one row with both
\* their shots; Adidas.jpg has a zero entry and no row
OneRowPerCountedPairWitness ==
    /\ pc = "proc_done"
    /\ Len(df.rows) = 1
    /\ df.rows[1].Sponsor = S_Nike /\ df.rows[1].Placement = S_LeftBoard
    /\ df.rows[1].TotalShots = 2
    /\ \E a, b \in DOMAIN data.Shots :
           data.Shots[a].FileName = S_NikePng /\ data.Shots[b].FileName = S_Nike2Png
    /\ \E k \in DOMAIN sponsor_stats :
           sponsor_stats[k][1] = <<S_Adidas, S_Center>> /\ sponsor_stats[k][2].count = 0

-----------------------------------------------------------------------------
(* build_aggregate_df *)

\* x.strip('%')
RECURSIVE StripPercent(_)
StripPercent(s) ==
    IF Len(s) = 0 THEN s
    ELSE IF s[1] = "%" THEN StripPercent(Tail(s))
    ELSE IF s[Len(s)] = "%" THEN StripPercent(SubSeq(s, 1, Len(s) - 1))
    ELSE s

\* float(x.strip('%')) of a two-decimal text, in hundredths; Raised (ValueError)
\* for any other text
ParsePercent(x) ==
    LET parts == Split(StripPercent(x), ".")
    IN IF Len(parts) = 2 /\ IsDecimal(parts[1]) /\ IsDecimal(parts[2])
          /\ Len(parts[2]) = 2
       THEN IntOf(parts[1]) * 100 + IntOf(parts[2]) ELSE Raised

\* Quotients of integers, for the divisions whose result is divided or summed again
Rat(n, d) == [num |-> n, den |-> d]
RatAdd(a, b) == Rat(a.num * b.den + b.num * a.den, a.den * b.den)

RECURSIVE SumSeq(_)
SumSeq(s) == IF Len(s) = 0 THEN 0 ELSE s[1] + SumSeq(Tail(s))

RECURSIVE RatSum(_)
RatSum(s) == IF Len(s) = 0 THEN Rat(0, 1) ELSE RatAdd(s[1], RatSum(Tail(s)))

\* df[per] for one row: the column of that name, '' when line 125 had to add it
CellOf(table, row, per) ==
    IF per \in Range(table.columns) THEN row.cells[IndexIn(per, table.columns)]
    ELSE <<>>

\* The group keys of df.groupby('Placement'), in sorted order
GroupKeys(table) ==
    LET S == {table.rows[r].Placement : r \in DOMAIN table.rows}
    IN CHOOSE f \in Orderings(S) :
           \A i, j \in DOMAIN f : i < j => StrLess(f[i], f[j])

GroupRows(table, pl) == SelectSeq(table.rows, LAMBDA row : row.Placement = pl)

\* Lines 126-132: one row of grp
GameGroup(table, pl, periodList) ==
    LET rows == GroupRows(table, pl)
    IN [shots  |-> SumSeq([r \in DOMAIN rows |-> rows[r].TotalShots]),
        dur    |-> SumSeq([r \in DOMAIN rows |-> parse_ms(rows[r].TotalDuration)]),
        screen |-> Rat(SumSeq([r \in DOMAIN rows |-> ParsePercent(rows[r].AvgScreen)]),
                       Len(rows)),
        per    |-> [k \in DOMAIN periodList |->
                       SumSeq([r \in DOMAIN rows |->
                                  parse_ms(CellOf(table, rows[r], periodList[k]))])]]

EmptyAcc == [shots |-> <<>>, durs |-> <<>>, screens |-> <<>>, periods |-> <<>>]

\* Lines 138-140, from period k on
RECURSIVE AppendPositive(_, _, _, _)
AppendPositive(lists, grp, periodList, k) ==
    IF k > Len(periodList) THEN lists
    ELSE AppendPositive(
             IF grp.per[k] > 0
             THEN DictPut(lists, periodList[k],
                          Append(DictGet(lists, periodList[k], <<>>), grp.per[k]))
             ELSE lists,
             grp, periodList, k + 1)

\* A plausible slip: every game's value is kept, zero or not
RECURSIVE AppendEvery(_, _, _, _)
AppendEvery(lists, grp, periodList, k) ==
    IF k > Len(periodList) THEN lists
    ELSE AppendEvery(DictPut(lists, periodList[k],
                             Append(DictGet(lists, periodList[k], <<>>), grp.per[k])),
                     grp, periodList, k + 1)

AccumulateGroup_all_games(acc, grp, periodList) ==
    [shots   |-> Append(acc.shots, grp.shots),
     durs    |-> Append(acc.durs, grp.dur),
     screens |-> Append(acc.screens, grp.screen),
     periods |-> AppendEvery(acc.periods, grp, periodList, 1)]

\* Lines 134-140: one row of grp appended to its placement's lists
AccumulateGroup(acc, grp, periodList) ==
    [shots   |-> Append(acc.shots, grp.shots),
     durs    |-> Append(acc.durs, grp.dur),
     screens |-> Append(acc.screens, grp.screen),
     periods |-> AppendPositive(acc.periods, grp, periodList, 1)]

\* Lines 133-140 over the groups of one table
RECURSIVE AccumulateGroups(_, _, _, _)
AccumulateGroups(pacc, table, keys, periodList) ==
    IF Len(keys) = 0 THEN pacc
    ELSE AccumulateGroups(
             DictPut(pacc, keys[1],
                     AccumulateGroup(DictGet(pacc, keys[1], EmptyAcc),
                                     GameGroup(table, keys[1], periodList),
                                     periodList)),
             table, Tail(keys), periodList)

AccumulateTable(pacc, table, periodList) ==
    AccumulateGroups(pacc, table, GroupKeys(table), periodList)

S_ZeroTime == <<"0", "0", ":", "0", "0", ":", "0", "0">>

\* sum(x_g * w_g) as a quotient
RECURSIVE WeightedSum(_, _)
WeightedSum(xs, ws) ==
    IF Len(xs) = 0 THEN Rat(0, 1)
    ELSE RatAdd(Rat(xs[1].num * ws[1], xs[1].den), WeightedSum(Tail(xs), Tail(ws)))

\* Lines 153-155
PeriodCells(acc, periodList) ==
    [k \in DOMAIN periodList |->
        LET lst == DictGet(acc.periods, periodList[k], <<>>)
        IN IF Len(lst) = 0 THEN S_ZeroTime
           ELSE ms_to_hhmmss_ratio(SumSeq(lst), Len(lst))]

\* A plausible slip: the screen percentage averaged over shots, not over games
AggregateRow_weighted(item, periodList) ==
    LET acc == item[2]
        n   == Len(acc.shots)
        w   == WeightedSum(acc.screens, acc.shots)
    IN [Placement        |-> item[1],
        AvgShots         |-> CeilDiv(SumSeq(acc.shots), n),
        AvgTotalDuration |-> ms_to_hhmmss_ratio(SumSeq(acc.durs), n),
        AvgScreen        |-> PercentText(RoundHalfEven(w.num, w.den * SumSeq(acc.shots))),
        cells            |-> PeriodCells(acc, periodList)]

\* Lines 142-156: the row of one placement (n > 0: an entry exists once appended to)
AggregateRow(item, periodList) ==
    LET acc == item[2]
        n   == Len(acc.shots)
        s   == RatSum(acc.screens)
    IN [Placement        |-> item[1],
        AvgShots         |-> CeilDiv(SumSeq(acc.shots), n),
        AvgTotalDuration |-> ms_to_hhmmss_ratio(SumSeq(acc.durs), n),
        AvgScreen        |-> PercentText(RoundHalfEven(s.num, s.den * n)),
        cells            |-> PeriodCells(acc, periodList)]

AggregateRows(pacc, periodList) ==
    [i \in DOMAIN pacc |-> AggregateRow(pacc[i], periodList)]

-----------------------------------------------------------------------------
(* main: the two loops over the uploads *)

\* An uploaded .json file: its bytes parse (to doc) or json.loads raises
JsonFile(parses, doc) == [ext |-> "json", ok |-> parses, doc |-> doc, members |-> <<>>]
\* An uploaded .zip: it opens (to its members) or zipfile.ZipFile raises
ZipFile(opens, members) == [ext |-> "zip", ok |-> opens, doc |-> <<>>, members |-> members]
\* A member of a zip that is no .json
OtherMember == [ext |-> "txt", ok |-> FALSE, doc |-> <<>>, members |-> <<>>]

\* The JSON texts one upload makes the loop body read (lines 178-197, 222-250)
Entries(f) ==
    IF f.ext = "json" THEN <<f>>
    ELSE IF ~f.ok THEN <<>>
    ELSE SelectSeq(f.members, LAMBDA m : m.ext = "json")

\* Lines 179-184 / 192-197 over the entries of one upload: [raised, periods]
RECURSIVE CollectEntries(_, _)
CollectEntries(entries, seen) ==
    IF Len(entries) = 0 THEN [raised |-> FALSE, periods |-> seen]
    ELSE IF ~entries[1].ok THEN CollectEntries(Tail(entries), seen)
    ELSE IF ProcessRaises(entries[1].doc) THEN [raised |-> TRUE, periods |-> seen]
    ELSE CollectEntries(Tail(entries),
                        seen \cup process_data(entries[1].doc).periods)

\* data['GameInfo']['GameId'] raises KeyError
GameIdRaises(d) == ~Has(d, "GameInfo") \/ ~Has(d.GameInfo, "GameId")

\* s.replace(' ', '_')
SpacesToUnderscores(s) == [i \in DOMAIN s |-> IF s[i] = " " THEN "_" ELSE s[i]]

\* Lines 228-231 for a document that goes through
GameTable(d, periodList) ==
    <<SpacesToUnderscores(d.GameInfo.GameId),
      build_individual_df(process_data(d).sponsor_stats, periodList)>>

\* Lines 223-232 / 241-250 over the entries of one upload: [raised, dfs]
RECURSIVE TabulateEntries(_, _, _)
TabulateEntries(entries, dfs, periodList) ==
    IF Len(entries) = 0 THEN [raised |-> FALSE, dfs |-> dfs]
    ELSE IF ~entries[1].ok THEN TabulateEntries(Tail(entries), dfs, periodList)
    ELSE IF ProcessRaises(entries[1].doc) \/ GameIdRaises(entries[1].doc)
    THEN [raised |-> TRUE, dfs |-> dfs]
    ELSE TabulateEntries(Tail(entries),
                         Append(dfs, GameTable(entries[1].doc, periodList)),
                         periodList)

\* The selections the multiselect can hold: the options, in order, some removed
RECURSIVE Keep(_, _, _)
Keep(seq, S, i) ==
    IF i > Len(seq) THEN <<>>
    ELSE (IF i \in S THEN <<seq[i]>> ELSE <<>>) \o Keep(seq, S, i + 1)

Selections(options) == {Keep(options, S, 1) : S \in SUBSET DOMAIN options}

\* Lines 175-197 for one upload
CollectUpload ==
    /\ pc = "collect"
    /\ upload_u < Len(uploads)
    /\ LET r == CollectEntries(Entries(uploads[upload_u + 1]), all_periods)
       IN IF r.raised
          THEN pc' = "main_raised" /\ UNCHANGED <<all_periods, upload_u>>
          ELSE pc' = "collect" /\ all_periods' = r.periods /\ upload_u' = upload_u + 1
    /\ UNCHANGED <<sorted_periods, uploads, aggregate, selected_periods, individual_dfs>>
    /\ UNCHANGED aggVars /\ UNCHANGED exceptMain

\* Lines 199-217: the options are sorted, the selection read, Generate clicked
SelectPeriods ==
    /\ pc = "collect"
    /\ upload_u = Len(uploads)
    /\ IF SortRaises(all_periods)
       THEN pc' = "main_raised" /\ UNCHANGED <<sorted_periods, selected_periods>>
       ELSE /\ sorted_periods' \in SortedOrderings(all_periods)
            /\ selected_periods' \in Selections(sorted_periods')
            /\ pc' = IF Len(uploads) = 0 \/ Len(selected_periods') = 0
                     THEN "rejected" ELSE "generate"
    /\ upload_u' = 0
    /\ UNCHANGED <<all_periods, uploads, aggregate, individual_dfs>>
    /\ UNCHANGED aggVars /\ UNCHANGED exceptMain

\* Where the script goes once u uploads are tabulated
AfterTabulate(u) ==
    IF u < Len(uploads) THEN "generate"
    ELSE IF aggregate THEN "accumulate" ELSE "write"

\* Lines 219-250 for one upload
TabulateUpload ==
    /\ pc = "generate"
    /\ upload_u < Len(uploads)
    /\ LET r == TabulateEntries(Entries(uploads[upload_u + 1]), individual_dfs,
                                selected_periods)
       IN /\ individual_dfs' = r.dfs
          /\ IF r.raised
             THEN pc' = "main_raised" /\ UNCHANGED upload_u
             ELSE pc' = AfterTabulate(upload_u + 1) /\ upload_u' = upload_u + 1
    /\ UNCHANGED <<all_periods, sorted_periods, uploads, aggregate, selected_periods>>
    /\ UNCHANGED aggVars /\ UNCHANGED exceptMain

\* Lines 123-140 of build_aggregate_df for one (gid, df)
AccumulateGame ==
    /\ pc = "accumulate"
    /\ game_k < Len(individual_dfs)
    /\ placement_acc' = AccumulateTable(placement_acc, individual_dfs[game_k + 1][2],
                                        selected_periods)
    /\ game_k' = game_k + 1
    /\ UNCHANGED <<pc, agg_df, sortVars, mainVars>> /\ UNCHANGED exceptMain

\* Lines 141-158 of build_aggregate_df
BuildAggregate ==
    /\ pc = "accumulate"
    /\ game_k = Len(individual_dfs)
    /\ agg_df' = AggregateRows(placement_acc, selected_periods)
    /\ pc' = "write"
    /\ UNCHANGED <<placement_acc, game_k, sortVars, mainVars>> /\ UNCHANGED exceptMain

\* Lines 252-268: the workbook is written and offered for download
WriteOutput ==
    /\ pc = "write"
    /\ pc' = "main_done"
    /\ UNCHANGED <<sortVars, mainVars, aggVars>> /\ UNCHANGED exceptMain

NextMain ==
    CollectUpload \/ SelectPeriods \/ TabulateUpload \/ AccumulateGame
    \/ BuildAggregate \/ WriteOutput

-----------------------------------------------------------------------------
(* Specification of a Generate run with the aggregate sheet, over well-formed games *)

S_GA == <<"G", "A">>
S_GB == <<"G", "B">>
S_GC == <<"G", "C">>
S_GD == <<"G", "D">>
S_GE == <<"G", " ", "E">>

Game(gid, l, s) == [GameInfo |-> [GameId |-> gid], Logos |-> l, Shots |-> s]

\* Five games: one Nike shot at 50%; three Nike shots averaging 70%; two sponsors
\* on LeftBoard plus one on Center; logos without any shot; Center in "2 Bottom"
\* only, next to an orphan shot
GameDocs ==
    { Game(S_GA, <<Logo(S_NikePng, 1, S_LeftBoard)>>,
           <<Shot(S_NikePng, 1, S_1t, 2000, 50)>>),
      Game(S_GB, <<Logo(S_NikePng, 1, S_LeftBoard)>>,
           <<Shot(S_NikePng, 1, S_1t, 1000, 60), Shot(S_NikePng, 1, S_1t, 3000, 80),
             Shot(S_NikePng, 1, S_2b, 4000, 70)>>),
      Game(S_GC, <<Logo(S_NikePng, 1, S_LeftBoard), Logo(S_AdidasJpg, 1, S_LeftBoard),
                   Logo(S_PumaPng, 1, S_Center)>>,
           <<Shot(S_NikePng, 1, S_1t, 500, 10), Shot(S_AdidasJpg, 1, S_2b, 1500, 20),
             Shot(S_AdidasJpg, 1, S_2b, 2500, 45), Shot(S_PumaPng, 1, S_1t, 61000, 33)>>),
      Game(S_GD, <<Logo(S_NikePng, 1, S_LeftBoard)>>, <<>>),
      Game(S_GE, <<Logo(S_AdidasJpg, 2, S_Center)>>,
           <<Shot(S_AdidasJpg, 2, S_2b, 3000, 5), Shot(S_PumaPng, 9, S_1t, 9000, 99)>>) }

MainStart ==
    /\ pc = "collect"
    /\ period_map = <<>> /\ placement_map = <<>>
    /\ all_periods = {} /\ sorted_periods = <<>>
    /\ upload_u = 0 /\ selected_periods = <<>> /\ individual_dfs = <<>>
    /\ placement_acc = <<>> /\ game_k = 0 /\ agg_df = <<>>
    /\ CodecIdle /\ NormIdle /\ ProcIdle

InitAgg ==
    /\ MainStart
    /\ aggregate = TRUE
    /\ uploads \in ListsUpTo({JsonFile(TRUE, d) : d \in GameDocs}, MaxGames)

SpecAgg == InitAgg /\ [][NextMain]_vars

\* The per-game tables, and the rows of one placement in game g
TableOf(g) == individual_dfs[g][2]
RowsOf(g, pl) == {r \in DOMAIN TableOf(g).rows : TableOf(g).rows[r].Placement = pl}
GamesWith(pl) == {g \in DOMAIN individual_dfs : RowsOf(g, pl) # {}}
AllPlacements ==
    UNION {{TableOf(g).rows[r].Placement : r \in DOMAIN TableOf(g).rows} :
              g \in DOMAIN individual_dfs}

RECURSIVE SumOver(_, _)
SumOver(S, f) ==
    IF S = {} THEN 0
    ELSE LET x == CHOOSE y \in S : TRUE IN f[x] + SumOver(S \ {x}, f)

RECURSIVE RatSumOver(_, _)
RatSumOver(S, f) ==
    IF S = {} THEN Rat(0, 1)
    ELSE LET x == CHOOSE y \in S : TRUE IN RatAdd(f[x], RatSumOver(S \ {x}, f))

Abs(x) == IF x < 0 THEN 0 - x ELSE x

\* The mean, over a game's sponsor rows under pl, of their 'Avg Screen %'
GameScreenMean(g, pl) ==
    Rat(SumOver(RowsOf(g, pl),
                [r \in RowsOf(g, pl) |-> ParsePercent(TableOf(g).rows[r].AvgScreen)]),
        Cardinality(RowsOf(g, pl)))

\* The unweighted mean of the games' means, in hundredths of a percent
MeanOfGameMeans(pl) ==
    LET total == RatSumOver(GamesWith(pl),
                            [g \in GamesWith(pl) |-> GameScreenMean(g, pl)])
    IN Rat(total.num, total.den * Cardinality(GamesWith(pl)))

AggregateBuilt == aggregate /\ pc \in {"write", "main_done"}

\* C3: the aggregate table has one row per placement, and its 'Avg Screen %' is
\* the unweighted mean over the games having the placement of each game's mean
\* 'Avg Screen %' under it, written with two decimals and a '%', whatever the
\* games' shot counts.
MeanOfMeans ==
    AggregateBuilt =>
        /\ {agg_df[i].Placement : i \in DOMAIN agg_df} = AllPlacements
        /\ Len(agg_df) = Cardinality(AllPlacements)
        /\ \A i \in DOMAIN agg_df :
               LET m == MeanOfGameMeans(agg_df[i].Placement)
                   h == ParsePercent(agg_df[i].AvgScreen)
               IN /\ h # Raised
                  /\ agg_df[i].AvgScreen = PercentText(h)
                  /\ 2 * Abs(h * m.den - m.num) <= m.den

\* Game GA at 50% with one shot and game GB at 70% with three shots: 60.00%
MeanOfMeansWitness ==
    /\ AggregateBuilt
    /\ Len(individual_dfs) = 2
    /\ individual_dfs[1][1] = S_GA /\ individual_dfs[2][1] = S_GB
    /\ TableOf(1).rows[1].TotalShots = 1 /\ TableOf(2).rows[1].TotalShots = 3
    /\ TableOf(1).rows[1].AvgScreen = <<"5", "0", ".", "0", "0", "%">>
    /\ TableOf(2).rows[1].AvgScreen = <<"7", "0", ".", "0", "0", "%">>
    /\ Len(agg_df) = 1
    /\ agg_df[1].AvgScreen = <<"6", "0", ".", "0", "0", "%">>

\* The duration game g accumulated under placement pl in the k-th selected period
GamePeriodMs(g, pl, k) ==
    SumOver(RowsOf(g, pl),
            [r \in RowsOf(g, pl) |->
                parse_ms(CellOf(TableOf(g), TableOf(g).rows[r], selected_periods[k]))])

ActiveGames(pl, k) == {g \in GamesWith(pl) : GamePeriodMs(g, pl, k) > 0}

\* C4: each 'Avg <period>' cell is the formatted mean of the per-game accumulated
\* durations over the games where that duration is positive (whole seconds,
\* rounded up), and exactly "00:00:00", never the empty string, when no game has one.
PerPeriodMeanOverActiveGames ==
    AggregateBuilt =>
        \A i \in DOMAIN agg_df : \A k \in DOMAIN selected_periods :
            LET pl     == agg_df[i].Placement
                active == ActiveGames(pl, k)
                total  == SumOver(active, [g \in active |-> GamePeriodMs(g, pl, k)])
                cell   == agg_df[i].cells[k]
                t      == parse_ms(cell)
            IN /\ cell # <<>>
               /\ active = {} => cell = <<"0", "0", ":", "0", "0", ":", "0", "0">>
               /\ active # {} =>
                      /\ t # Raised /\ t % 1000 = 0
                      /\ t * Cardinality(active) >= total
                      /\ (t - 1000) * Cardinality(active) < total
                      /\ cell = ms_to_hhmmss(t)

\* One cell averages over fewer games than have the placement (a game without
\* activity in the period is left out), another has no active game at all
PerPeriodMeanWitness ==
    /\ AggregateBuilt
    /\ \E i \in DOMAIN agg_df : \E k \in DOMAIN selected_periods :
           /\ ActiveGames(agg_df[i].Placement, k) # {}
           /\ ActiveGames(agg_df[i].Placement, k) # GamesWith(agg_df[i].Placement)
           /\ agg_df[i].cells[k] = <<"0", "0", ":", "0", "0", ":", "0", "4">>
    /\ \E i \in DOMAIN agg_df : \E k \in DOMAIN selected_periods :
           /\ ActiveGames(agg_df[i].Placement, k) = {}
           /\ agg_df[i].cells[k] = <<"0", "0", ":", "0", "0", ":", "0", "0">>

-----------------------------------------------------------------------------
(* Specification of a Generate run over uploads some of which are malformed *)

S_G2 == <<"G", "2">>
S_G3 == <<"G", "3">>
S_G4 == <<"G", "4">>
S_G5 == <<"G", "5">>
S_G6 == <<"G", "6">>

GoodDoc(gid) ==
    Game(gid, <<Logo(S_NikePng, 1, S_LeftBoard)>>, <<Shot(S_NikePng, 1, S_1t, 2000, 50)>>)

\* Parseable JSON with a required field missing: a counted shot without Period,
\* a logo without GroupId, a document without GameInfo
DocShotWithoutPeriod ==
    Game(S_G3, <<Logo(S_NikePng, 1, S_LeftBoard)>>,
         <<[FileName |-> S_NikePng, GroupId |-> 1, Duration |-> 700,
            ScreenPercentage |-> 5]>>)
DocLogoWithoutGroupId ==
    Game(S_G4, <<[FileName |-> S_NikePng, Placement |-> S_LeftBoard]>>,
         <<Shot(S_NikePng, 1, S_1t, 2000, 50)>>)
DocWithoutGameInfo ==
    [Logos |-> <<Logo(S_NikePng, 1, S_LeftBoard)>>,
     Shots |-> <<Shot(S_NikePng, 1, S_2b, 1000, 20)>>]

UploadPool ==
    { JsonFile(TRUE, GoodDoc(S_G1)),
      JsonFile(TRUE, GoodDoc(S_G2)),
      JsonFile(FALSE, <<>>),
      JsonFile(TRUE, DocShotWithoutPeriod),
      JsonFile(TRUE, DocLogoWithoutGroupId),
      JsonFile(TRUE, DocWithoutGameInfo),
      ZipFile(FALSE, <<>>),
      ZipFile(TRUE, <<JsonFile(TRUE, GoodDoc(S_G5)), OtherMember, JsonFile(FALSE, <<>>),
                      JsonFile(TRUE, GoodDoc(S_G6))>>) }

InitBatch ==
    /\ MainStart
    /\ aggregate \in BOOLEAN
    /\ uploads \in ListsUpTo(UploadPool, MaxUploads)

SpecBatch == InitBatch /\ [][NextMain]_vars

\* The required shape of section 6: GameInfo.GameId, every logo's FileName and
\* GroupId, every shot's FileName, GroupId and Period
WellFormed(d) ==
    /\ Has(d, "GameInfo") /\ Has(d.GameInfo, "GameId")
    /\ Has(d, "Logos") /\ Has(d, "Shots")
    /\ \A i \in DOMAIN d.Logos : Has(d.Logos[i], "FileName") /\ Has(d.Logos[i], "GroupId")
    /\ \A i \in DOMAIN d.Shots :
           Has(d.Shots[i], "FileName") /\ Has(d.Shots[i], "GroupId")
           /\ Has(d.Shots[i], "Period")

\* The game ids of the well-formed documents of the uploads, in upload order
RECURSIVE WellFormedIds(_)
WellFormedIds(files) ==
    IF Len(files) = 0 THEN <<>>
    ELSE LET docs == SelectSeq(Entries(files[1]),
                               LAMBDA e : e.ok /\ WellFormed(e.doc))
         IN [i \in DOMAIN docs |-> SpacesToUnderscores(docs[i].doc.GameInfo.GameId)]
            \o WellFormedIds(Tail(files))

\* C2: when the Generate run ends, every malformed document (unparseable, or
\* parseable with a required field missing) has been skipped and every
\* well-formed document of the batch has its per-game table in the output: one
\* bad document never aborts the batch.
MalformedDocumentsSkipped ==
    pc \in {"main_done", "main_raised"} =>
        /\ pc = "main_done"
        /\ [i \in DOMAIN individual_dfs |-> individual_dfs[i][1]] = WellFormedIds(uploads)

=============================================================================
